---- MODULE Spec2Model ----
(***************************************************************************)
(* Bulk account-provisioning state machine of src/bot.py (the handlers     *)
(* around bulk_add_states) together with the bulk_* helpers of            *)
(* src/account.py.                                                         *)
(*                                                                         *)
(* The bot is a telebot.TeleBot with its default worker pool: handlers run *)
(* on NumThreads worker threads.  A handler is executed atomically up to   *)
(* the next blocking call into the verification service                    *)
(* (bulk_send_code_sync, bulk_verify_otp_sync, bulk_verify_password_sync,  *)
(* bulk_save_account_sync); the call is then pending on that thread and    *)
(* its completion is a separate step that runs the rest of the handler up  *)
(* to the next blocking call.  Job dictionaries live on a heap, because a  *)
(* handler keeps its local reference `state` to a dictionary that has been *)
(* deleted from bulk_add_states in the meantime.                           *)
(***************************************************************************)
EXTENDS Integers, Sequences, FiniteSets, TLC

VARIABLES
    bulk_add_states,   \* user id -> heap address of that user's job dictionary
    heap,              \* the job dictionaries ever created, by address
    threads,           \* worker thread -> its pending blocking call (or idle)
    clients,           \* the Pyrogram clients returned by bulk_send_code_async
    accounts_col,      \* the documents inserted by bulk_save_account_async
    summaries,         \* the summaries emitted by show_bulk_summary
    cancelled,         \* the dictionaries deleted by handle_cancel_bulk
    last               \* the handler step that last changed the state or
                       \* rejected a list or a start, with the branch it
                       \* took or the result it got

vars == <<bulk_add_states, heap, threads, clients, accounts_col, summaries,
          cancelled, last>>

(***************************************************************************)
(* Bounds of the model.                                                    *)
(***************************************************************************)
MaxJobs    == 1    \* jobs created in one run for a user who has none
MaxClients == 2    \* successful bulk_send_code calls in one run
MaxIndex   == 2    \* cap on current_index (the skip callback has none)
MaxSkips   == 11   \* cap on current_index of a job that was never started
MaxReplaced == 1   \* jobs created in one run for a user who has a job

(***************************************************************************)
(* Program constants.                                                      *)
(***************************************************************************)
NumThreads       == 2    \* telebot.TeleBot(BOT_TOKEN): threaded, 2 workers
ADMIN_ID         == 1    \* the single admin identity
MaxLines         == 50   \* lines[:50]
OtpLength        == 5    \* len(otp_code) != 5
MaxPasswordTries == 2    \* password_attempts > 2 / >= 2
MinPhoneDigits   == 10   \* \d{10,15}
MaxPhoneDigits   == 15
SummaryLines     == 10   \* state['failed_numbers'][:10]

Users == {ADMIN_ID}

\* a user whose id is not ADMIN_ID
Guest == 2

AllUsers == Users \cup {Guest}

is_admin(user_id) == user_id = ADMIN_ID

Countries == {"India"}

(***************************************************************************)
(* Text.  A text is a sequence of one-character strings, so that strip(),  *)
(* lower(), isdigit() and the phone pattern are computed as the code       *)
(* computes them.                                                          *)
(***************************************************************************)
Digits == {"0", "1", "2", "3", "4", "5", "6", "7", "8", "9"}

LowerChar(c) ==
    CASE c = "S" -> "s"
      [] c = "K" -> "k"
      [] c = "I" -> "i"
      [] c = "P" -> "p"
      [] OTHER -> c

\* a comparison that is case-sensitive
lower_identity(s) == s

lower(s) == [i \in 1..Len(s) |-> LowerChar(s[i])]

RECURSIVE lstrip(_)
lstrip(s) == IF s # <<>> /\ Head(s) = " " THEN lstrip(Tail(s)) ELSE s

RECURSIVE rstrip(_)
rstrip(s) ==
    IF s # <<>> /\ s[Len(s)] = " " THEN rstrip(SubSeq(s, 1, Len(s) - 1)) ELSE s

strip(s) == rstrip(lstrip(s))

isdigit(s) == s # <<>> /\ \A i \in 1..Len(s) : s[i] \in Digits

\* re.match(r'^\+\d{10,15}$', line)
IsPhoneNumber(line) ==
    /\ Len(line) >= 1 + MinPhoneDigits
    /\ Len(line) <= 1 + MaxPhoneDigits
    /\ line[1] = "+"
    /\ \A i \in 2..Len(line) : line[i] \in Digits

SkipToken == <<"s", "k", "i", "p">>

Phone1 == <<"+", "9", "1", "1", "1", "1", "1", "1", "1", "1", "1", "1", "1">>
Phone2 == <<"+", "9", "1", "2", "2", "2", "2", "2", "2", "2", "2", "2", "2">>
BadLine == <<"b", "a", "d">>
ShortPhone == <<"+", "9", "1", "1", "1", "1", "1", "1", "1", "1">>
LongPhone == <<"+", "9", "1", "1", "1", "1", "1", "1", "1", "1", "1", "1", "1",
               "1", "1", "1", "1">>
PaddedPhone == <<" ">> \o Phone1 \o <<" ">>
BlankLine == <<" ", " ">>

\* n lines, all of them this line
Fill(n, line) == [i \in 1..n |-> line]

\* The raw lists an admin sends while step = waiting_numbers (already split
\* into lines): short ones, and lists that go beyond line MaxLines.
RawLists ==
    { <<Phone1>>,
      <<Phone1, BadLine, Phone2>>,
      <<BadLine, ShortPhone>>,
      <<LongPhone, BlankLine, PaddedPhone>>,
      Fill(MaxLines, BadLine) \o <<Phone1>>,
      Fill(MaxLines - 1, BadLine) \o <<Phone1, Phone2>>,
      Fill(MaxLines - 1, BlankLine) \o <<Phone1, BadLine, Phone2>> }

\* Lists of one line.
ShortLists == { <<Phone1>>, <<BadLine>> }

\* The texts an admin sends while a number is being verified.
Texts ==
    { <<"s", "k", "i", "p">>,
      <<" ", "S", "k", "I", "P", " ">>,
      <<"1", "2", "3", "4", "5">>,
      <<" ">> }

\* Further texts an admin sends while the code of a number is awaited:
\* too short, too long, not numeric.
BadCodes ==
    { <<"1", "2", "3", "4">>,
      <<"1", "2", "3", "4", "5", "6">>,
      <<"1", "2", "a", "4", "5">> }

OtpTexts == Texts \cup BadCodes

(***************************************************************************)
(* Records.                                                                *)
(***************************************************************************)
NoJob    == 0    \* no heap address
NoClient == 0    \* "current_client": None
NoText   == <<>> \* "current_phone": None, password=None

JobIds == 1..MaxJobs

\* bulk_add_states[user_id] = {...} as created by the bulk_account_ callback
NewJob(country_name) ==
    [ country           |-> country_name,
      phone_numbers     |-> <<>>,
      current_index     |-> 0,
      total_numbers     |-> 0,
      success_count     |-> 0,
      failed_count      |-> 0,
      failed_numbers    |-> <<>>,
      current_client    |-> NoClient,
      current_phone     |-> NoText,
      password_attempts |-> 0,
      step              |-> "waiting_numbers",
      is_processing     |-> FALSE ]

\* A worker thread: idle, or blocked in one call of the verification
\* service with the locals of the handler that made the call.
Idle ==
    [ pc       |-> "idle",
      user     |-> 0,
      state    |-> NoJob,      \* the handler's local `state`
      client   |-> NoClient,   \* the client passed to the call
      phone    |-> NoText,     \* the phone number passed to the call
      country  |-> "",         \* the country passed to the call
      password |-> NoText,     \* the handler's local `password`
      index    |-> 0 ]         \* current_index when the call was made

\* The result dictionary {"success": True, "client": client, ...} of
\* bulk_send_code_async, with what the model records about the client.
NewClient(job, index, phone) ==
    [ job        |-> job,      \* the dictionary it was opened for
      index      |-> index,    \* the list position it was opened for
      phone      |-> phone,
      connected  |-> TRUE,     \* client.is_connected
      releases   |-> 0 ]       \* calls of safe_disconnect on it

\* The state the handlers read and write, threaded through the calls of one
\* step; `call` is the blocking call the step ends in (Idle: none).
World ==
    [ tbl       |-> bulk_add_states,
      heap      |-> heap,
      clients   |-> clients,
      accounts  |-> accounts_col,
      summaries |-> summaries,
      cancelled |-> cancelled,
      call      |-> Idle ]

DelKey(f, k) == [x \in (DOMAIN f) \ {k} |-> f[x]]

SetKey(f, k, v) == [x \in (DOMAIN f) \cup {k} |-> IF x = k THEN v ELSE f[x]]

(***************************************************************************)
(* The facade (src/account.py).                                            *)
(***************************************************************************)
\* PyrogramClientManager.safe_disconnect: one call on client c
safe_disconnect(cl, c) ==
    [cl EXCEPT ![c].releases = @ + 1, ![c].connected = FALSE]

\* "if not client.is_connected: await client.connect()" at the start of
\* sign_in_with_otp, sign_in_with_password and get_session_string
ensure_connected(cl, c) ==
    IF c = NoClient THEN cl ELSE [cl EXCEPT ![c].connected = TRUE]

\* "if state.get("current_client") and account_manager: safe_disconnect(...)"
release_current(w, j) ==
    IF w.heap[j].current_client # NoClient
    THEN [w EXCEPT !.clients = safe_disconnect(w.clients, w.heap[j].current_client)]
    ELSE w

(***************************************************************************)
(* The engine (src/bot.py).                                                *)
(***************************************************************************)
\* the first n entries of a list: seq[:n]
FirstN(seq, n) == SubSeq(seq, 1, IF Len(seq) < n THEN Len(seq) ELSE n)

\* the summary text of show_bulk_summary: the counters, the failed numbers
\* it lists (state['failed_numbers'][:10]) and its "... and N more"
Summary(state) ==
    [ total          |-> state.total_numbers,
      success_count  |-> state.success_count,
      failed_count   |-> state.failed_count,
      failed_numbers |-> FirstN(state.failed_numbers, SummaryLines),
      more           |-> IF Len(state.failed_numbers) > SummaryLines
                         THEN Len(state.failed_numbers) - SummaryLines ELSE 0 ]

show_bulk_summary(w, user_id) ==
    IF user_id \notin DOMAIN w.tbl THEN w
    ELSE LET state == w.heap[w.tbl[user_id]] IN
         [w EXCEPT
            !.summaries = Append(@, Summary(state)),
            !.tbl = DelKey(@, user_id)]

\* process_next_bulk_number without "if not state.get("is_processing", True)"
process_next_bulk_number_unpaused(w, user_id) ==
    IF user_id \notin DOMAIN w.tbl THEN w
    ELSE LET j == w.tbl[user_id]
             state == w.heap[j]
         IN  IF state.current_index >= state.total_numbers
             THEN show_bulk_summary(w, user_id)
             ELSE LET phone_number == state.phone_numbers[state.current_index + 1] IN
                  [w EXCEPT
                     !.heap[j].current_phone = phone_number,
                     !.heap[j].password_attempts = 0,
                     !.call = [Idle EXCEPT
                                 !.pc = "send_code",
                                 !.user = user_id,
                                 !.state = j,
                                 !.phone = phone_number,
                                 !.index = state.current_index]]

\* process_next_bulk_number, up to the blocking call in send_bulk_otp
process_next_bulk_number(w, user_id) ==
    IF user_id \notin DOMAIN w.tbl THEN w
    ELSE LET j == w.tbl[user_id]
             state == w.heap[j]
         IN  IF ~state.is_processing THEN w
             ELSE IF state.current_index >= state.total_numbers
                  THEN show_bulk_summary(w, user_id)
             ELSE LET phone_number == state.phone_numbers[state.current_index + 1] IN
                  [w EXCEPT
                     !.heap[j].current_phone = phone_number,
                     !.heap[j].password_attempts = 0,
                     !.call = [Idle EXCEPT
                                 !.pc = "send_code",
                                 !.user = user_id,
                                 !.state = j,
                                 !.phone = phone_number,
                                 !.index = state.current_index]]

\* bulk_number_failed without the closing process_next_bulk_number
bulk_number_failed_stops(w, user_id, reason) ==
    IF user_id \notin DOMAIN w.tbl THEN w
    ELSE LET j == w.tbl[user_id]
             state == w.heap[j]
             w1 == [w EXCEPT
                      !.heap[j].failed_count = @ + 1,
                      !.heap[j].failed_numbers = Append(@,
                          [number |-> state.current_phone, reason |-> reason])]
             w2 == release_current(w1, j)
         IN  [w2 EXCEPT
                !.heap[j].current_index = @ + 1,
                !.heap[j].password_attempts = 0]

bulk_number_failed(w, user_id, reason) ==
    IF user_id \notin DOMAIN w.tbl THEN w
    ELSE LET j == w.tbl[user_id]
             state == w.heap[j]
             w1 == [w EXCEPT
                      !.heap[j].failed_count = @ + 1,
                      !.heap[j].failed_numbers = Append(@,
                          [number |-> state.current_phone, reason |-> reason])]
             w2 == release_current(w1, j)
             w3 == [w2 EXCEPT
                      !.heap[j].current_index = @ + 1,
                      !.heap[j].password_attempts = 0]
         IN  process_next_bulk_number(w3, user_id)

\* bulk_number_success without "state["success_count"] += 1"
bulk_number_success_uncounted(w, user_id) ==
    IF user_id \notin DOMAIN w.tbl THEN w
    ELSE LET j == w.tbl[user_id]
             w2 == release_current(w, j)
             w3 == [w2 EXCEPT
                      !.heap[j].current_index = @ + 1,
                      !.heap[j].password_attempts = 0]
         IN  process_next_bulk_number(w3, user_id)

\* bulk_number_success without the closing process_next_bulk_number
bulk_number_success_stops(w, user_id) ==
    IF user_id \notin DOMAIN w.tbl THEN w
    ELSE LET j == w.tbl[user_id]
             w1 == [w EXCEPT !.heap[j].success_count = @ + 1]
             w2 == release_current(w1, j)
         IN  [w2 EXCEPT
                !.heap[j].current_index = @ + 1,
                !.heap[j].password_attempts = 0]

bulk_number_success(w, user_id) ==
    IF user_id \notin DOMAIN w.tbl THEN w
    ELSE LET j == w.tbl[user_id]
             w1 == [w EXCEPT !.heap[j].success_count = @ + 1]
             w2 == release_current(w1, j)
             w3 == [w2 EXCEPT
                      !.heap[j].current_index = @ + 1,
                      !.heap[j].password_attempts = 0]
         IN  process_next_bulk_number(w3, user_id)

\* save_bulk_account that does not pass the password on
save_bulk_account_nopassword(w, user_id, password) ==
    IF user_id \notin DOMAIN w.tbl THEN w
    ELSE LET j == w.tbl[user_id]
             state == w.heap[j]
         IN  [w EXCEPT
                !.clients = ensure_connected(@, state.current_client),
                !.call = [Idle EXCEPT
                            !.pc = "save",
                            !.user = user_id,
                            !.state = j,
                            !.client = state.current_client,
                            !.phone = state.current_phone,
                            !.country = state.country]]

\* save_bulk_account, up to the blocking call bulk_save_account_sync
save_bulk_account(w, user_id, password) ==
    IF user_id \notin DOMAIN w.tbl THEN w
    ELSE LET j == w.tbl[user_id]
             state == w.heap[j]
         IN  [w EXCEPT
                !.clients = ensure_connected(@, state.current_client),
                !.call = [Idle EXCEPT
                            !.pc = "save",
                            !.user = user_id,
                            !.state = j,
                            !.client = state.current_client,
                            !.phone = state.current_phone,
                            !.country = state.country,
                            !.password = password]]

(***************************************************************************)
(* Steps.  A handler starts on a free worker thread; Commit writes back    *)
(* what the step computed and leaves the thread in the call it ended in.   *)
(***************************************************************************)
FreeThreads == {t \in 1..NumThreads : threads[t].pc = "idle"}

\* the worker that takes the next update
Worker == CHOOSE t \in FreeThreads : \A x \in FreeThreads : t <= x

WithinBounds(w) ==
    /\ Len(w.heap) > Len(heap)
          => Len(heap) < IF \E u \in DOMAIN bulk_add_states \cap DOMAIN w.tbl :
                               w.tbl[u] # bulk_add_states[u]
                         THEN MaxJobs + MaxReplaced ELSE MaxJobs
    /\ Len(w.clients) <= MaxClients
    /\ \A j \in 1..Len(w.heap) :
          w.heap[j].current_index <=
              IF w.heap[j].current_phone = NoText /\ w.call = Idle
              THEN MaxSkips ELSE MaxIndex

\* A dictionary that neither bulk_add_states nor a handler's local refers
\* to is garbage: nothing can read it again.
Collected == [NewJob("") EXCEPT !.step = "collected"]

Reachable(w, t, j) ==
    \/ \E u \in DOMAIN w.tbl : w.tbl[u] = j
    \/ w.call.state = j
    \/ \E x \in (1..NumThreads) \ {t} : threads[x].state = j

\* What a handler answers when it does not act: the validation errors
\* ("rejected"), the alerts "Session expired" and "Unauthorized", the
\* message "Invalid OTP format"; "unanswered" is an update that gets no
\* answer at all.
Answers ==
    {"rejected", "Session expired", "Unauthorized", "format error",
     "unanswered"}

\* an update of a user without a job that is dropped without an answer: a
\* callback whose branch does nothing, a text that no handler takes
Unanswered == <<"update", "unanswered">>

Commit(t, w, op) ==
    /\ WithinBounds(w)
    /\ cancelled' = w.cancelled
    /\ last' = IF w = World /\ threads[t] = Idle /\ op[2] \notin Answers
               THEN last ELSE op
    /\ bulk_add_states' = w.tbl
    /\ heap' = [j \in 1..Len(w.heap) |->
                  IF Reachable(w, t, j) THEN w.heap[j] ELSE Collected]
    /\ clients' = w.clients
    /\ accounts_col' = w.accounts
    /\ summaries' = w.summaries
    /\ threads' = [threads EXCEPT ![t] = w.call]

\* callback "bulk_account_<country>"
bulk_account(user_id, country_name) ==
    /\ FreeThreads # {}
    /\ Commit(Worker,
         IF ~is_admin(user_id) THEN World
         ELSE [World EXCEPT
                 !.heap = Append(@, NewJob(country_name)),
                 !.tbl = SetKey(@, user_id, Len(heap) + 1)],
         <<"bulk_account", IF is_admin(user_id) THEN "" ELSE "Unauthorized">>)

\* lines = [line.strip() for line in text.split('\n') if line.strip()]
StrippedLines(raw) ==
    LET Stripped == [i \in 1..Len(raw) |-> strip(raw[i])]
        NonEmpty(line) == line # <<>>
    IN  SelectSeq(Stripped, NonEmpty)

\* valid_numbers without the re.match test
ValidNumbers_unfiltered(raw) ==
    LET lines == StrippedLines(raw)
    IN  SubSeq(lines, 1, IF Len(lines) < MaxLines THEN Len(lines) ELSE MaxLines)

\* for line in lines[:50]: if re.match(...): valid_numbers.append(line)
ValidNumbers(raw) ==
    LET lines == StrippedLines(raw)
        first == SubSeq(lines, 1, IF Len(lines) < MaxLines THEN Len(lines) ELSE MaxLines)
    IN  SelectSeq(first, IsPhoneNumber)

\* handle_bulk_numbers_input without "if not valid_numbers: ... return"
handle_bulk_numbers_input_unchecked(user_id, raw) ==
    /\ FreeThreads # {}
    /\ user_id \in DOMAIN bulk_add_states
    /\ heap[bulk_add_states[user_id]].step = "waiting_numbers"
    /\ LET j == bulk_add_states[user_id]
           valid_numbers == ValidNumbers(raw)
       IN  Commit(Worker,
             [World EXCEPT
                !.heap[j].phone_numbers = valid_numbers,
                !.heap[j].total_numbers = Len(valid_numbers),
                !.heap[j].step = "confirm_numbers"],
         <<"handle_bulk_numbers_input",
           IF ValidNumbers(raw) = <<>> THEN "rejected" ELSE "">>)

\* message handler for step == "waiting_numbers"
handle_bulk_numbers_input(user_id, raw) ==
    /\ FreeThreads # {}
    /\ user_id \in DOMAIN bulk_add_states
    /\ heap[bulk_add_states[user_id]].step = "waiting_numbers"
    /\ LET j == bulk_add_states[user_id]
           valid_numbers == ValidNumbers(raw)
       IN  Commit(Worker,
             IF valid_numbers = <<>> THEN World
             ELSE [World EXCEPT
                     !.heap[j].phone_numbers = valid_numbers,
                     !.heap[j].total_numbers = Len(valid_numbers),
                     !.heap[j].step = "confirm_numbers"],
         <<"handle_bulk_numbers_input",
           IF ValidNumbers(raw) = <<>> THEN "rejected" ELSE "">>)

\* start_bulk_processing that also sets current_index back to 0
start_bulk_processing_rewinds(w, user_id) ==
    IF user_id \notin DOMAIN w.tbl THEN w
    ELSE process_next_bulk_number(
            [w EXCEPT !.heap[w.tbl[user_id]].is_processing = TRUE,
                      !.heap[w.tbl[user_id]].current_index = 0], user_id)

\* start_bulk_processing
start_bulk_processing(w, user_id) ==
    IF user_id \notin DOMAIN w.tbl THEN w
    ELSE process_next_bulk_number(
            [w EXCEPT !.heap[w.tbl[user_id]].is_processing = TRUE], user_id)

\* callback "start_bulk_add"
start_bulk_add(user_id) ==
    /\ FreeThreads # {}
    /\ Commit(Worker,
         IF ~is_admin(user_id) THEN World
         ELSE IF user_id \notin DOMAIN bulk_add_states THEN World
         ELSE IF heap[bulk_add_states[user_id]].phone_numbers = <<>> THEN World
         ELSE start_bulk_processing(World, user_id),
         <<"start_bulk_add",
           IF ~is_admin(user_id) THEN "Unauthorized"
           ELSE IF user_id \notin DOMAIN bulk_add_states THEN "Session expired"
           ELSE IF heap[bulk_add_states[user_id]].phone_numbers = <<>>
           THEN "rejected" ELSE "">>)

\* a "pause_bulk" that flips is_processing
pause_toggle(w, user_id) ==
    IF user_id \in DOMAIN w.tbl
    THEN [w EXCEPT !.heap[w.tbl[user_id]].is_processing = ~@]
    ELSE w

\* a "pause_bulk" that pauses every job there is
pause_all(w, user_id) ==
    [w EXCEPT !.heap = [j \in DOMAIN @ |->
        IF \E u \in DOMAIN w.tbl : w.tbl[u] = j
        THEN [@[j] EXCEPT !.is_processing = FALSE] ELSE @[j]]]

\* what the callback "pause_bulk" does to the data
pause(w, user_id) ==
    IF user_id \in DOMAIN w.tbl
    THEN [w EXCEPT !.heap[w.tbl[user_id]].is_processing = FALSE]
    ELSE w

\* callback "pause_bulk"
pause_bulk(user_id) ==
    /\ FreeThreads # {}
    /\ Commit(Worker, pause(World, user_id),
         IF user_id \in DOMAIN bulk_add_states
         THEN <<"pause_bulk", "">> ELSE Unanswered)

\* callback "resume_bulk"
resume_bulk(user_id) ==
    /\ FreeThreads # {}
    /\ Commit(Worker,
         IF user_id \in DOMAIN bulk_add_states
         THEN process_next_bulk_number(
                [World EXCEPT !.heap[bulk_add_states[user_id]].is_processing = TRUE],
                user_id)
         ELSE World,
         IF user_id \in DOMAIN bulk_add_states
         THEN <<"resume_bulk", "">> ELSE Unanswered)

\* callback "skip_bulk_number" without the safe_disconnect of current_client
skip_bulk_number_keeps_client(user_id) ==
    /\ FreeThreads # {}
    /\ Commit(Worker,
         IF user_id \in DOMAIN bulk_add_states
         THEN LET j == bulk_add_states[user_id]
                  state == heap[j]
                  w1 == [World EXCEPT
                           !.heap[j].failed_count = @ + 1,
                           !.heap[j].failed_numbers = Append(@,
                               [number |-> state.current_phone,
                                reason |-> "Skipped by admin"])]
                  w3 == [w1 EXCEPT
                           !.heap[j].current_index = @ + 1,
                           !.heap[j].password_attempts = 0]
              IN  process_next_bulk_number(w3, user_id)
         ELSE World,
         IF user_id \in DOMAIN bulk_add_states
         THEN <<"skip_bulk_number", "">> ELSE Unanswered)

\* callback "skip_bulk_number"
skip_bulk_number(user_id) ==
    /\ FreeThreads # {}
    /\ Commit(Worker,
         IF user_id \in DOMAIN bulk_add_states
         THEN LET j == bulk_add_states[user_id]
                  state == heap[j]
                  w1 == [World EXCEPT
                           !.heap[j].failed_count = @ + 1,
                           !.heap[j].failed_numbers = Append(@,
                               [number |-> state.current_phone,
                                reason |-> "Skipped by admin"])]
                  w2 == release_current(w1, j)
                  w3 == [w2 EXCEPT
                           !.heap[j].current_index = @ + 1,
                           !.heap[j].password_attempts = 0]
              IN  process_next_bulk_number(w3, user_id)
         ELSE World,
         IF user_id \in DOMAIN bulk_add_states
         THEN <<"skip_bulk_number", "">> ELSE Unanswered)

\* callback "cancel_bulk"
handle_cancel_bulk(user_id) ==
    /\ FreeThreads # {}
    /\ Commit(Worker,
         IF user_id \in DOMAIN bulk_add_states
         THEN LET w1 == release_current(World, bulk_add_states[user_id])
              IN  [w1 EXCEPT
                     !.tbl = DelKey(@, user_id),
                     !.cancelled = @ \cup {bulk_add_states[user_id]}]
         ELSE World,
         <<"handle_cancel_bulk", "">>)

\* handle_bulk_otp_input without "if not otp_code.isdigit() or len(...) != 5"
handle_bulk_otp_input_unchecked(user_id, text) ==
    /\ FreeThreads # {}
    /\ user_id \in DOMAIN bulk_add_states
    /\ heap[bulk_add_states[user_id]].step = "waiting_bulk_otp"
    /\ LET j == bulk_add_states[user_id]
           state == heap[j]
           otp_code == strip(text)
       IN  Commit(Worker,
             IF lower(otp_code) = SkipToken
             THEN bulk_number_failed(World, user_id, "Skipped by admin")
             ELSE [World EXCEPT
                     !.clients = ensure_connected(@, state.current_client),
                     !.call = [Idle EXCEPT
                                 !.pc = "verify_otp",
                                 !.user = user_id,
                                 !.state = j,
                                 !.client = state.current_client]],
         <<"handle_bulk_otp_input",
           IF lower(strip(text)) = SkipToken THEN "skip" ELSE "code">>)

\* message handler for step == "waiting_bulk_otp", up to bulk_verify_otp_sync
handle_bulk_otp_input(user_id, text) ==
    /\ FreeThreads # {}
    /\ user_id \in DOMAIN bulk_add_states
    /\ heap[bulk_add_states[user_id]].step = "waiting_bulk_otp"
    /\ LET j == bulk_add_states[user_id]
           state == heap[j]
           otp_code == strip(text)
       IN  Commit(Worker,
             IF lower(otp_code) = SkipToken
             THEN bulk_number_failed(World, user_id, "Skipped by admin")
             ELSE IF ~isdigit(otp_code) \/ Len(otp_code) # OtpLength
             THEN World
             ELSE [World EXCEPT
                     !.clients = ensure_connected(@, state.current_client),
                     !.call = [Idle EXCEPT
                                 !.pc = "verify_otp",
                                 !.user = user_id,
                                 !.state = j,
                                 !.client = state.current_client]],
         <<"handle_bulk_otp_input",
           IF lower(strip(text)) = SkipToken THEN "skip"
           ELSE IF ~isdigit(strip(text)) \/ Len(strip(text)) # OtpLength
           THEN "format error" ELSE "code">>)

\* message handler for step == "waiting_bulk_password", up to
\* bulk_verify_password_sync
handle_bulk_password_input(user_id, text) ==
    /\ FreeThreads # {}
    /\ user_id \in DOMAIN bulk_add_states
    /\ heap[bulk_add_states[user_id]].step = "waiting_bulk_password"
    /\ LET j == bulk_add_states[user_id]
           state == heap[j]
           password == strip(text)
           attempts == state.password_attempts + 1
           w1 == [World EXCEPT !.heap[j].password_attempts = attempts]
       IN  Commit(Worker,
             IF lower(password) = SkipToken
             THEN bulk_number_failed(World, user_id, "Skipped by admin")
             ELSE IF password = <<>>
             THEN World
             ELSE IF attempts > MaxPasswordTries
             THEN bulk_number_failed(w1, user_id, "Max password attempts exceeded")
             ELSE [w1 EXCEPT
                     !.clients = ensure_connected(@, state.current_client),
                     !.call = [Idle EXCEPT
                                 !.pc = "verify_password",
                                 !.user = user_id,
                                 !.state = j,
                                 !.client = state.current_client,
                                 !.password = password]],
         <<"handle_bulk_password_input",
           IF lower(strip(text)) = SkipToken THEN "skip" ELSE "password">>)

\* the steps in which a text handler of the engine is registered:
\* @bot.message_handler(func=lambda m: bulk_add_states.get(...).get("step") == ...)
TextSteps == {"waiting_numbers", "waiting_bulk_otp", "waiting_bulk_password"}

\* a text of a user for whom no filter of those handlers holds: none of
\* them is called
unhandled_message(user_id) ==
    /\ FreeThreads # {}
    /\ user_id \in DOMAIN bulk_add_states
          => heap[bulk_add_states[user_id]].step \notin TextSteps
    /\ Commit(Worker, World, Unanswered)

(***************************************************************************)
(* Completion of the blocking calls.                                       *)
(***************************************************************************)
SendCodeResults == {"success", "error"}
VerifyOtpResults == {"verified", "password_required", "error"}
VerifyPasswordResults == {"success", "error"}
SaveResults == {"saved", "no_session", "insert_failed"}

\* send_bulk_otp from the return of bulk_send_code_sync
send_bulk_otp_done(t, result) ==
    /\ threads[t].pc = "send_code"
    /\ LET th == threads[t]
           client == Len(clients) + 1
       IN  Commit(t,
             IF result = "success"
             THEN [World EXCEPT
                     !.clients = Append(@, NewClient(th.state, th.index, th.phone)),
                     !.heap[th.state].current_client = client,
                     !.heap[th.state].step = "waiting_bulk_otp"]
             ELSE bulk_number_failed(World, th.user, "Failed to send OTP"),
         <<"send_bulk_otp_done", result>>)

\* handle_bulk_otp_done that leaves password_attempts as it is when the
\* second factor is required
handle_bulk_otp_done_keeps_count(t, result) ==
    /\ threads[t].pc = "verify_otp"
    /\ LET th == threads[t] IN
       Commit(t,
         IF result = "verified"
         THEN save_bulk_account(World, th.user, NoText)
         ELSE IF result = "password_required"
         THEN [World EXCEPT !.heap[th.state].step = "waiting_bulk_password"]
         ELSE bulk_number_failed(World, th.user, "OTP error"),
         <<"handle_bulk_otp_done", result>>)

\* handle_bulk_otp_input from the return of bulk_verify_otp_sync
handle_bulk_otp_done(t, result) ==
    /\ threads[t].pc = "verify_otp"
    /\ LET th == threads[t] IN
       Commit(t,
         IF result = "verified"
         THEN save_bulk_account(World, th.user, NoText)
         ELSE IF result = "password_required"
         THEN [World EXCEPT
                 !.heap[th.state].step = "waiting_bulk_password",
                 !.heap[th.state].password_attempts = 0]
         ELSE bulk_number_failed(World, th.user, "OTP error"),
         <<"handle_bulk_otp_done", result>>)

\* handle_bulk_password_done with the cap one higher
handle_bulk_password_done_cap3(t, result) ==
    /\ threads[t].pc = "verify_password"
    /\ LET th == threads[t] IN
       Commit(t,
         IF result = "success"
         THEN save_bulk_account(World, th.user, th.password)
         ELSE IF heap[th.state].password_attempts >= MaxPasswordTries + 1
         THEN bulk_number_failed(World, th.user, "Password error")
         ELSE World,
         <<"handle_bulk_password_done", result>>)

\* handle_bulk_password_input from the return of bulk_verify_password_sync
handle_bulk_password_done(t, result) ==
    /\ threads[t].pc = "verify_password"
    /\ LET th == threads[t] IN
       Commit(t,
         IF result = "success"
         THEN save_bulk_account(World, th.user, th.password)
         ELSE IF heap[th.state].password_attempts >= MaxPasswordTries
         THEN bulk_number_failed(World, th.user, "Password error")
         ELSE World,
         <<"handle_bulk_password_done", result>>)

\* bulk_save_account_async: the document inserted into accounts_col
AccountData(th) ==
    [ country           |-> th.country,
      phone             |-> th.phone,
      has_2fa           |-> th.password # NoText,
      two_step_password |-> th.password,
      created_by        |-> th.user ]

\* save_bulk_account that counts the number as added whatever
\* bulk_save_account_sync returns
save_bulk_account_done_anyway(t, result) ==
    /\ threads[t].pc = "save"
    /\ threads[t].client = NoClient => result = "no_session"
    /\ LET th == threads[t] IN
       Commit(t, bulk_number_success(World, th.user),
         <<"save_bulk_account_done", result>>)

\* save_bulk_account from the return of bulk_save_account_sync
save_bulk_account_done(t, result) ==
    /\ threads[t].pc = "save"
    /\ threads[t].client = NoClient => result = "no_session"
    /\ LET th == threads[t] IN
       Commit(t,
         IF result = "saved"
         THEN bulk_number_success(
                [World EXCEPT !.accounts = Append(@, AccountData(th))], th.user)
         ELSE bulk_number_failed(World, th.user, "Save error"),
         <<"save_bulk_account_done", result>>)

(***************************************************************************)
(* Specification.                                                          *)
(***************************************************************************)
Init ==
    /\ bulk_add_states = <<>>
    /\ heap = <<>>
    /\ threads = [t \in 1..NumThreads |-> Idle]
    /\ clients = <<>>
    /\ accounts_col = <<>>
    /\ summaries = <<>>
    /\ cancelled = {}
    /\ last = <<"init", "">>

Next ==
    \/ \E u \in Users, c \in Countries :
          u \notin DOMAIN bulk_add_states /\ bulk_account(u, c)
    \/ \E u \in Users, raw \in RawLists : handle_bulk_numbers_input(u, raw)
    \/ \E u \in Users : start_bulk_add(u)
    \/ \E u \in Users : pause_bulk(u)
    \/ \E u \in Users : resume_bulk(u)
    \/ \E u \in Users : skip_bulk_number(u)
    \/ \E u \in Users : handle_cancel_bulk(u)
    \/ \E u \in Users, text \in OtpTexts : handle_bulk_otp_input(u, text)
    \/ \E u \in Users, text \in Texts : handle_bulk_password_input(u, text)
    \/ \E u \in Users : unhandled_message(u)
    \/ \E t \in 1..NumThreads, r \in SendCodeResults : send_bulk_otp_done(t, r)
    \/ \E t \in 1..NumThreads, r \in VerifyOtpResults : handle_bulk_otp_done(t, r)
    \/ \E t \in 1..NumThreads, r \in VerifyPasswordResults : handle_bulk_password_done(t, r)
    \/ \E t \in 1..NumThreads, r \in SaveResults : save_bulk_account_done(t, r)

Spec == Init /\ [][Next]_vars

\* The same handlers with updates of a second user, who is not the admin,
\* coming in between those of the admin, who works on lists of one line.
NextTwoUsers ==
    \/ \E u \in AllUsers, c \in Countries :
          u \notin DOMAIN bulk_add_states /\ bulk_account(u, c)
    \/ \E u \in AllUsers, raw \in ShortLists : handle_bulk_numbers_input(u, raw)
    \/ \E u \in AllUsers : start_bulk_add(u)
    \/ \E u \in AllUsers : pause_bulk(u)
    \/ \E u \in AllUsers : resume_bulk(u)
    \/ \E u \in AllUsers : skip_bulk_number(u)
    \/ \E u \in AllUsers : handle_cancel_bulk(u)
    \/ \E u \in AllUsers, text \in OtpTexts : handle_bulk_otp_input(u, text)
    \/ \E u \in AllUsers, text \in Texts : handle_bulk_password_input(u, text)
    \/ \E u \in AllUsers : unhandled_message(u)
    \/ \E t \in 1..NumThreads, r \in SendCodeResults : send_bulk_otp_done(t, r)
    \/ \E t \in 1..NumThreads, r \in VerifyOtpResults : handle_bulk_otp_done(t, r)
    \/ \E t \in 1..NumThreads, r \in VerifyPasswordResults : handle_bulk_password_done(t, r)
    \/ \E t \in 1..NumThreads, r \in SaveResults : save_bulk_account_done(t, r)

SpecTwoUsers == Init /\ [][NextTwoUsers]_vars

(***************************************************************************)
(* Vocabulary of the properties.                                           *)
(***************************************************************************)
Jobs == 1..Len(heap)

Clients == 1..Len(clients)

\* the dictionary is bulk_add_states[user_id] for some user
InTable(j) == \E u \in DOMAIN bulk_add_states : bulk_add_states[u] = j

\* a blocking call made by a handler of dictionary j is pending
Pending(j, pc) == \E t \in DOMAIN threads : threads[t].pc = pc /\ threads[t].state = j

\* C1: in every job dictionary success_count + failed_count equals
\* current_index, after every step that counts an attempt as succeeded,
\* failed or skipped.
C1_CountersMatchCursor ==
    \A j \in Jobs :
        heap[j].success_count + heap[j].failed_count = heap[j].current_index

\* a live job in which one attempt has been counted as succeeded and another
\* as failed
C1_Witness ==
    \E j \in Jobs :
        /\ InTable(j)
        /\ heap[j].success_count >= 1
        /\ heap[j].failed_count >= 1

\* C2: in every reachable state 0 <= current_index <= total_numbers.
C2_CursorWithinList ==
    \A j \in Jobs :
        /\ 0 <= heap[j].current_index
        /\ heap[j].current_index <= heap[j].total_numbers

\* C3: at most one client of a job is connected at any time.
C3_OneFacadeOpen ==
    \A c1, c2 \in Clients :
        (c1 # c2 /\ clients[c1].job = clients[c2].job)
            => ~(clients[c1].connected /\ clients[c2].connected)

\* the attempt a client was opened for is over: its dictionary was discarded
\* or the cursor has moved past its list position
AttemptOver(c) ==
    \/ ~InTable(clients[c].job)
    \/ heap[clients[c].job].current_index > clients[c].index

\* C4: safe_disconnect is called exactly once on every client: never twice,
\* and once by the time its attempt is over and no call on it is pending.
C4_ReleasedExactlyOnce ==
    \A c \in Clients :
        /\ clients[c].releases <= 1
        /\ (AttemptOver(c) /\ \A t \in DOMAIN threads : threads[t].pc = "idle")
              => clients[c].releases = 1

(***************************************************************************)
(* The attempt at the cursor, as the state machine of the engine sees it.  *)
(***************************************************************************)
\* the client in current_client was opened for the list position at the
\* cursor, and no new code is being requested for that position
CurrentAttemptOpen(j) ==
    /\ InTable(j)
    /\ heap[j].current_index < heap[j].total_numbers
    /\ heap[j].current_client # NoClient
    /\ clients[heap[j].current_client].job = j
    /\ clients[heap[j].current_client].index = heap[j].current_index
    /\ ~Pending(j, "send_code")

AwaitingCode(j) ==
    CurrentAttemptOpen(j) /\ heap[j].step = "waiting_bulk_otp"

AwaitingSecondFactor(j) ==
    CurrentAttemptOpen(j) /\ heap[j].step = "waiting_bulk_password"

InTableNext(j) == \E u \in DOMAIN bulk_add_states' : bulk_add_states'[u] = j

\* the step leaves dictionary j and its place in bulk_add_states as they were
Untouched(j) == InTableNext(j) /\ heap'[j] = heap[j]

\* the step counts the current attempt of j as failed with this reason: one
\* more failed entry and the cursor one further, in the dictionary or, when
\* that was the last list position of a running job, in the summary
CountedFailed(j, reason) ==
    LET entry == [number |-> heap[j].current_phone, reason |-> reason]
        failed == Append(heap[j].failed_numbers, entry)
    IN  IF InTableNext(j)
        THEN /\ heap'[j].failed_numbers = failed
             /\ heap'[j].failed_count = heap[j].failed_count + 1
             /\ heap'[j].success_count = heap[j].success_count
             /\ heap'[j].current_index = heap[j].current_index + 1
        ELSE /\ heap[j].is_processing
             /\ heap[j].current_index + 1 >= heap[j].total_numbers
             /\ summaries' = Append(summaries,
                    Summary([heap[j] EXCEPT !.failed_count = @ + 1,
                                            !.failed_numbers = failed]))

CountedVerified(j) ==
    IF InTableNext(j)
    THEN /\ heap'[j].success_count = heap[j].success_count + 1
         /\ heap'[j].failed_count = heap[j].failed_count
         /\ heap'[j].failed_numbers = heap[j].failed_numbers
         /\ heap'[j].current_index = heap[j].current_index + 1
    ELSE /\ heap[j].is_processing
         /\ heap[j].current_index + 1 >= heap[j].total_numbers
         /\ summaries' = Append(summaries,
                Summary([heap[j] EXCEPT !.success_count = @ + 1]))

\* the call pending on thread t was made on the client of the current
\* attempt of the dictionary its handler works on
OnCurrentClient(t) ==
    /\ threads[t].state \in Jobs
    /\ threads[t].client = heap[threads[t].state].current_client

SaysSkip(text) ==
    LET s == strip(text) IN
    /\ Len(s) = 4
    /\ s[1] \in {"s", "S"}
    /\ s[2] \in {"k", "K"}
    /\ s[3] \in {"i", "I"}
    /\ s[4] \in {"p", "P"}

\* C7: the text "skip", in any case, sent while the attempt at the cursor
\* awaits the code or the second factor, counts that attempt as skipped:
\* failed_count and current_index go up by exactly one and the phone number
\* at the cursor is recorded with the reason "Skipped by admin", whether
\* is_processing is set or not.
C7_SkipTokenSkips ==
    [][ \A u \in Users, text \in Texts :
            ( /\ SaysSkip(text)
              /\ \/ handle_bulk_otp_input(u, text) /\ AwaitingCode(bulk_add_states[u])
                 \/ /\ handle_bulk_password_input(u, text)
                    /\ AwaitingSecondFactor(bulk_add_states[u]) )
            => LET j == bulk_add_states[u] IN
               /\ heap[j].current_phone = heap[j].phone_numbers[heap[j].current_index + 1]
               /\ CountedFailed(j, "Skipped by admin")
      ]_vars

\* the skip text has just skipped an attempt that awaited its second factor,
\* in a job that is paused
C7_Witness ==
    /\ last = <<"handle_bulk_password_input", "skip">>
    /\ \E j \in Jobs :
        /\ InTable(j)
        /\ ~heap[j].is_processing
        /\ heap[j].current_index = 1
        /\ heap[j].failed_numbers = <<[number |-> Phone1, reason |-> "Skipped by admin"]>>

\* C8 (as claimed): when a call made for a job returns after the job was
\* cancelled, the client of that call (for send_code, the client the call
\* has opened) has been released exactly once and is not connected.
C8_CancelMidFlightReleasesOnce ==
    [][ \A t \in DOMAIN threads :
            ( /\ threads[t].pc # "idle"
              /\ threads[t].state \in cancelled
              /\ threads'[t].pc = "idle" )
            => \A c \in DOMAIN clients' :
                 ( /\ clients'[c].job = threads[t].state
                   /\ c = threads[t].client \/ c \notin DOMAIN clients )
                 => /\ clients'[c].releases = 1
                    /\ ~clients'[c].connected
      ]_vars

\* C9 (as claimed): handle_cancel_bulk on a user with a job removes the job
\* from bulk_add_states and leaves no client of that job connected.
C9_CancelLeavesNoFacadeOpen ==
    [][ \A u \in Users :
            ( /\ handle_cancel_bulk(u)
              /\ u \in DOMAIN bulk_add_states )
            => /\ u \notin DOMAIN bulk_add_states'
               /\ \A c \in DOMAIN clients' :
                    clients'[c].job = bulk_add_states[u] => ~clients'[c].connected
      ]_vars

\* C10: pause is idempotent.  In every reachable state, pausing a job twice
\* in a row leaves is_processing FALSE and everything else (the cursor, the
\* counters, the list, current_client, the clients, the table) as it was
\* before the first pause, and the second pause changes nothing.
C10_PauseIdempotent ==
    \A u \in DOMAIN bulk_add_states :
        LET j == bulk_add_states[u]
            once == pause(World, u)
            twice == pause(once, u)
        IN  /\ twice = [World EXCEPT !.heap[j].is_processing = FALSE]
            /\ twice = once

\* a running job whose attempt awaited the code has just been paused, so
\* that the next pause finds it paused
C10_Witness ==
    /\ last = <<"pause_bulk", "">>
    /\ FreeThreads # {}
    /\ \E u \in DOMAIN bulk_add_states :
        /\ ~heap[bulk_add_states[u]].is_processing
        /\ AwaitingCode(bulk_add_states[u])
        /\ clients[heap[bulk_add_states[u]].current_client].connected

\* the job has been started (process_next_bulk_number has chosen a number
\* for it) and is paused
Paused(j) ==
    /\ InTable(j)
    /\ ~heap[j].is_processing
    /\ heap[j].current_phone # NoText

\* the step makes a new call of bulk_send_code_sync for dictionary j
IssuesRequestCode(j) ==
    \E t \in DOMAIN threads :
        /\ threads'[t].pc = "send_code"
        /\ threads'[t].state = j
        /\ threads'[t] # threads[t]

\* the handler steps that skip the number at the cursor
SkipSteps ==
    { <<"skip_bulk_number", "">>,
      <<"handle_bulk_otp_input", "skip">>,
      <<"handle_bulk_password_input", "skip">> }

MatchesPhoneSyntax(line) ==
    \E n \in MinPhoneDigits..MaxPhoneDigits :
        /\ Len(line) = n + 1
        /\ line[1] = "+"
        /\ \A i \in 2..(n + 1) : line[i] \in Digits

\* the entries of the raw list that pass the check, in their order
RECURSIVE Matching(_)
Matching(raw) ==
    IF raw = <<>> THEN <<>>
    ELSE (IF MatchesPhoneSyntax(strip(Head(raw))) THEN <<strip(Head(raw))>> ELSE <<>>)
         \o Matching(Tail(raw))

\* the step answered a list or a start with a validation error and changed
\* nothing
RejectedBy(handler) ==
    /\ last' = <<handler, "rejected">>
    /\ UNCHANGED <<bulk_add_states, heap, threads, clients, accounts_col,
                   summaries, cancelled>>

\* C12: for a raw list of at most MaxLines non-blank lines the job gets
\* exactly the entries that pass the phone check, in their original order,
\* and total_numbers is their number; <<Phone1, BadLine, Phone2>> gives a
\* job of exactly 2 numbers.
C12_KeepsMatchingInOrder ==
    [][ \A u \in Users, raw \in RawLists :
            ( /\ handle_bulk_numbers_input(u, raw)
              /\ Len(StrippedLines(raw)) <= MaxLines
              /\ Matching(raw) # <<>> )
            => LET j == bulk_add_states[u] IN
               /\ heap'[j].phone_numbers = Matching(raw)
               /\ heap'[j].total_numbers = Len(Matching(raw))
               /\ raw = <<Phone1, BadLine, Phone2>> => heap'[j].total_numbers = 2
      ]_vars

\* the list with an invalid entry between two valid ones has just been
\* accepted as a job of two numbers
C12_Witness ==
    /\ last = <<"handle_bulk_numbers_input", "">>
    /\ \E j \in Jobs :
        /\ InTable(j)
        /\ heap[j].phone_numbers = <<Phone1, Phone2>>
        /\ heap[j].total_numbers = 2

\* C13 (as claimed): the job gets the first MaxLines of the entries that
\* pass the phone check, wherever they stand in the raw list.
C13_FilterThenCap ==
    [][ \A u \in Users, raw \in RawLists :
            ( /\ handle_bulk_numbers_input(u, raw)
              /\ Matching(raw) # <<>> )
            => LET j == bulk_add_states[u] IN
               /\ heap'[j].phone_numbers = FirstN(Matching(raw), MaxLines)
               /\ heap'[j].total_numbers = Len(FirstN(Matching(raw), MaxLines))
      ]_vars

\* C14: a raw list without any entry that passes the phone check is
\* answered with a validation error and changes nothing: the job keeps an
\* empty list and step waiting_numbers (so that another list is taken),
\* and start_bulk_add on a job with an empty list is refused.
C14_NoValidNumbersRejected ==
    [][ /\ \A u \in Users, raw \in RawLists :
            ( /\ handle_bulk_numbers_input(u, raw)
              /\ Matching(raw) = <<>> )
            => /\ RejectedBy("handle_bulk_numbers_input")
               /\ heap'[bulk_add_states[u]].phone_numbers = <<>>
               /\ heap'[bulk_add_states[u]].step = "waiting_numbers"
        /\ \A u \in Users :
            ( /\ start_bulk_add(u)
              /\ u \in DOMAIN bulk_add_states
              /\ heap[bulk_add_states[u]].phone_numbers = <<>> )
            => RejectedBy("start_bulk_add")
      ]_vars

\* a list without valid numbers has just been rejected
C14_Witness ==
    /\ last = <<"handle_bulk_numbers_input", "rejected">>
    /\ \E j \in Jobs :
        /\ InTable(j)
        /\ heap[j].phone_numbers = <<>>
        /\ heap[j].step = "waiting_numbers"
        /\ ~heap[j].is_processing

(***************************************************************************)
(* The outcome of one attempt.                                             *)
(***************************************************************************)
\* after the step the next list position of j is being processed on thread
\* t (its code is being requested) exactly if j was running and the
\* position at the cursor was not the last one; otherwise thread t is idle
NextBegunIffRunning(t, j) ==
    LET next == heap[j].current_index + 1 IN
    IF heap[j].is_processing /\ next < heap[j].total_numbers
    THEN /\ InTableNext(j)
         /\ threads'[t].pc = "send_code"
         /\ threads'[t].state = j
         /\ threads'[t].index = next
         /\ threads'[t].phone = heap[j].phone_numbers[next + 1]
    ELSE /\ threads'[t].pc = "idle"
         /\ InTableNext(j) <=> ~heap[j].is_processing

\* C15: when the code of the attempt at the cursor is accepted, the export
\* and save call is made on its client; when that call succeeds, the
\* account is stored, success_count and current_index go up by exactly
\* one, and the next number is processed at once if and only if
\* is_processing is set.
C15_VerifiedAdvances ==
    [][ \A t \in DOMAIN threads :
          /\ ( /\ handle_bulk_otp_done(t, "verified")
                /\ AwaitingCode(threads[t].state)
                /\ OnCurrentClient(t) )
              => /\ Untouched(threads[t].state)
                 /\ threads'[t].pc = "save"
                 /\ threads'[t].client = threads[t].client
                 /\ threads'[t].password = NoText
          /\ ( /\ save_bulk_account_done(t, "saved")
                /\ AwaitingCode(threads[t].state)
                /\ OnCurrentClient(t)
                /\ threads[t].password = NoText )
              => LET j == threads[t].state IN
                 /\ CountedVerified(j)
                 /\ Len(accounts_col') = Len(accounts_col) + 1
                 /\ accounts_col'[Len(accounts_col')].phone = heap[j].current_phone
                 /\ ~accounts_col'[Len(accounts_col')].has_2fa
                 /\ NextBegunIffRunning(t, j)
      ]_vars

\* the first number of a running two-number job has just been saved and
\* the code for the second one is being requested
C15_Witness ==
    /\ last = <<"save_bulk_account_done", "saved">>
    /\ \E j \in Jobs :
        /\ InTable(j)
        /\ heap[j].success_count = 1
        /\ heap[j].current_index = 1
        /\ heap[j].is_processing
        /\ \E t \in DOMAIN threads :
            threads[t].pc = "send_code" /\ threads[t].state = j /\ threads[t].index = 1

\* C17: when the export and save call of the attempt at the cursor fails
\* (no session string, or the insert fails or has no collection), the
\* attempt is counted as failed with the reason "Save error", nothing is
\* stored, its client is disconnected, and the job goes on with the next
\* number if it is running.
C17_SaveFailureCountsFailed ==
    [][ \A t \in DOMAIN threads, r \in {"no_session", "insert_failed"} :
            ( /\ save_bulk_account_done(t, r)
              /\ CurrentAttemptOpen(threads[t].state)
              /\ OnCurrentClient(t) )
            => LET j == threads[t].state
                   c == threads[t].client
               IN  /\ CountedFailed(j, "Save error")
                   /\ accounts_col' = accounts_col
                   /\ ~clients'[c].connected
                   /\ clients'[c].releases = clients[c].releases + 1
                   /\ NextBegunIffRunning(t, j)
      ]_vars

\* a verified number of a running two-number job could not be saved: it
\* is recorded as failed and the next number is being processed
C17_Witness ==
    /\ last[1] = "save_bulk_account_done"
    /\ last[2] \in {"no_session", "insert_failed"}
    /\ accounts_col = <<>>
    /\ \E j \in Jobs :
        /\ InTable(j)
        /\ heap[j].success_count = 0
        /\ heap[j].failed_numbers = <<[number |-> Phone1, reason |-> "Save error"]>>
        /\ \E t \in DOMAIN threads :
            threads[t].pc = "send_code" /\ threads[t].state = j /\ threads[t].index = 1

\* the list position the call pending on thread t was made for
CallIndex(t) ==
    IF threads[t].pc = "send_code" THEN threads[t].index
    ELSE clients[threads[t].client].index

\* the call pending on thread t returns an error that the handler counts
\* as the failure of a number
ErrorCounted(t) ==
    \/ send_bulk_otp_done(t, "error")
    \/ handle_bulk_otp_done(t, "error")
    \/ /\ handle_bulk_password_done(t, "error")
       /\ heap[threads[t].state].password_attempts >= MaxPasswordTries

\* C16 (as claimed): an error returned by a call made for list position i
\* is counted against position i only: when it changes the job, the cursor
\* stands at i, the number at i is recorded as failed and the cursor moves
\* to i + 1.
C16_FailureIsLocal ==
    [][ \A t \in DOMAIN threads, j \in JobIds :
            ( /\ ErrorCounted(t)
              /\ j = threads[t].state
              /\ InTable(j) )
            => /\ heap[j].current_index = CallIndex(t)
               /\ heap[j].current_phone = heap[j].phone_numbers[CallIndex(t) + 1]
      ]_vars

\* C18 (as claimed): in every summary the counters add up to the number of
\* phone numbers of the job, and every failure counted is listed, once per
\* phone number, with that phone number.
C18_SummaryCountsEveryNumber ==
    \A i \in 1..Len(summaries) :
        LET s == summaries[i] IN
        /\ s.success_count + s.failed_count = s.total
        /\ s.more = 0
        /\ Len(s.failed_numbers) = s.failed_count
        /\ \A a, b \in 1..Len(s.failed_numbers) :
              /\ s.failed_numbers[a].number # NoText
              /\ a # b => s.failed_numbers[a].number # s.failed_numbers[b].number

\* C19 (as claimed): a text handler makes a call of the verification
\* service only on the client of the attempt at the cursor, which has not
\* been disconnected: nothing is submitted for a number that has already
\* been counted.
C19_NoCallOnFinishedAttempt ==
    [][ \A t \in DOMAIN threads :
            ( /\ threads[t].pc = "idle"
              /\ threads'[t].pc \in {"verify_otp", "verify_password"} )
            => LET c == threads'[t].client
                   j == threads'[t].state
               IN  /\ c # NoClient
                   /\ clients[c].releases = 0
                   /\ clients[c].index = heap[j].current_index
      ]_vars

\* C20 (as claimed): start_bulk_add on a job that is running or whose
\* cursor is past 0 changes nothing: no call is made and the job is as it
\* was.
C20_StartOnlyOnce ==
    [][ \A u \in Users :
            ( /\ start_bulk_add(u)
              /\ u \in DOMAIN bulk_add_states
              /\ \/ heap[bulk_add_states[u]].is_processing
                 \/ heap[bulk_add_states[u]].current_index > 0 )
            => UNCHANGED <<bulk_add_states, heap, threads, clients, summaries>>
      ]_vars

(***************************************************************************)
(* The cursor and the counters over the life of a job.                     *)
(***************************************************************************)
\* the dictionary exists and is still referred to, before and after the step
Alive(j) ==
    /\ j \in Jobs
    /\ heap[j].step # "collected"
    /\ heap'[j].step # "collected"

\* C23: current_index of a job dictionary never decreases, and a step
\* that changes it increases it by exactly 1.
C23_CursorMonotonic ==
    [][ \A j \in JobIds :
            Alive(j) =>
                \/ heap'[j].current_index = heap[j].current_index
                \/ heap'[j].current_index = heap[j].current_index + 1
      ]_vars

\* both numbers of a two-number job have been verified and saved, one after
\* the other, and the job (paused) is still there with its cursor at 2
C23_Witness ==
    \E j \in Jobs :
        /\ InTable(j)
        /\ heap[j].total_numbers = 2
        /\ heap[j].current_index = 2
        /\ heap[j].success_count = 2

\* the step counts a number of j as added: success_count goes up, in the
\* dictionary or in the summary that ends the job
SuccessCounted(j) ==
    IF InTableNext(j)
    THEN heap'[j].success_count # heap[j].success_count
    ELSE /\ Len(summaries') > Len(summaries)
         /\ summaries'[Len(summaries')].success_count # heap[j].success_count

\* C24 (as claimed): a number is counted as added only by the return of a
\* successful export and save that was called for the number at the
\* cursor on the client of that attempt (on which the code or the second
\* factor had been accepted), and success_count never exceeds the number
\* of stored accounts.
C24_VerifiedOnlyAfterSave ==
    [][ \A j \in JobIds :
            (j \in Jobs /\ InTable(j)) =>
              /\ SuccessCounted(j) =>
                    /\ heap[j].current_index < heap[j].total_numbers
                    /\ \E t \in DOMAIN threads :
                          /\ save_bulk_account_done(t, "saved")
                          /\ threads[t].state = j
                          /\ OnCurrentClient(t)
                          /\ clients[threads[t].client].index = heap[j].current_index
                          /\ threads[t].phone =
                                heap[j].phone_numbers[heap[j].current_index + 1]
              /\ InTableNext(j) => heap'[j].success_count <= Len(accounts_col')
      ]_vars

\* C25 (as claimed): when the last number of the list is counted the job
\* is finalized at once, paused or not: a job whose last attempt awaits
\* its input is never left in bulk_add_states with its cursor at the end
\* of the list.
C25_FinalizedWhenListExhausted ==
    [][ \A j \in JobIds :
            ( /\ j \in Jobs
              /\ AwaitingCode(j) \/ AwaitingSecondFactor(j)
              /\ InTableNext(j) )
            => heap'[j].current_index < heap'[j].total_numbers
      ]_vars

\* C26 (as claimed): pause_bulk and resume_bulk change is_processing and
\* nothing else; resume_bulk on a job whose attempt at the cursor awaits
\* the code or the second factor leaves step, password_attempts,
\* current_client and the clients as they were and requests no new code.
C26_ResumeLeavesAttempt ==
    [][ \A u \in Users :
            ( /\ u \in DOMAIN bulk_add_states
              /\ \/ AwaitingCode(bulk_add_states[u])
                 \/ AwaitingSecondFactor(bulk_add_states[u]) )
            => LET j == bulk_add_states[u] IN
               /\ pause_bulk(u) =>
                     /\ heap' = [heap EXCEPT ![j].is_processing = FALSE]
                     /\ UNCHANGED <<bulk_add_states, threads, clients>>
               /\ resume_bulk(u) =>
                     /\ heap' = [heap EXCEPT ![j].is_processing = TRUE]
                     /\ UNCHANGED <<bulk_add_states, threads, clients>>
      ]_vars

\* the step counts a number of j, as added, failed or skipped
Counted(j) ==
    IF InTableNext(j)
    THEN heap'[j].current_index # heap[j].current_index
    ELSE /\ Len(summaries') > Len(summaries)
         /\ summaries'[Len(summaries')].success_count
              + summaries'[Len(summaries')].failed_count
            # heap[j].success_count + heap[j].failed_count

\* C27 (as claimed): the numbers are processed in list order, one at a
\* time.  A code is requested only for the number at the cursor and only
\* while no other call of the job is pending and no attempt is open; and a
\* number is counted only after its code was requested (current_phone is
\* the number at the cursor, which process_next_bulk_number sets when it
\* requests the code).
C27_InListOrderOneAtATime ==
    [][ \A j \in JobIds :
            (j \in Jobs /\ InTable(j)) =>
              /\ IssuesRequestCode(j) =>
                    /\ \A t \in DOMAIN threads :
                          (threads'[t].pc = "send_code" /\ threads'[t] # threads[t])
                          => /\ threads'[t].index = heap'[j].current_index
                             /\ threads'[t].phone =
                                   heap'[j].phone_numbers[threads'[t].index + 1]
                    /\ \A t \in DOMAIN threads :
                          (threads[t].state = j /\ threads[t].pc # "idle")
                          => threads'[t].pc = "idle"
                    /\ ~CurrentAttemptOpen(j)
              /\ Counted(j) =>
                    /\ heap[j].current_index < heap[j].total_numbers
                    /\ heap[j].current_phone =
                          heap[j].phone_numbers[heap[j].current_index + 1]
      ]_vars

(***************************************************************************)
(* Text and callbacks while a number is being verified.                    *)
(***************************************************************************)
\* the text is exactly five digits (blanks around them aside)
FiveDigits(text) ==
    LET s == strip(text) IN
    /\ Len(s) = 5
    /\ \A i \in 1..5 : s[i] \in Digits

\* C28: while the attempt at the cursor awaits its code, a text that is
\* neither "skip" nor exactly 5 digits is answered with the format error
\* and changes nothing: no bulk_verify_otp_sync call is made, and the job
\* (step, cursor, counters, current_client), the clients and the stored
\* accounts are as they were.
C28_BadCodeRejected ==
    [][ \A u \in Users, text \in OtpTexts :
            ( /\ handle_bulk_otp_input(u, text)
              /\ AwaitingCode(bulk_add_states[u])
              /\ ~SaysSkip(text)
              /\ ~FiveDigits(text) )
            => /\ last' = <<"handle_bulk_otp_input", "format error">>
               /\ UNCHANGED <<bulk_add_states, heap, threads, clients,
                              accounts_col, summaries, cancelled>>
      ]_vars

\* a text that is not a code has just been rejected: the attempt still
\* awaits its code on its connected client and no call is pending
C28_Witness ==
    /\ last = <<"handle_bulk_otp_input", "format error">>
    /\ \A t \in DOMAIN threads : threads[t].pc = "idle"
    /\ \E j \in Jobs :
        /\ AwaitingCode(j)
        /\ clients[heap[j].current_client].connected
        /\ heap[j].current_index = 0
        /\ heap[j].failed_count = 0

\* C29: the skip_bulk_number callback, handled while the attempt at the
\* cursor awaits its code or its second factor, records the number at the
\* cursor with the reason "Skipped by admin", disconnects its client,
\* raises failed_count and current_index by exactly one, and, if the job
\* is running, requests the code of the next number of the list with a
\* call that will open a client of its own.
C29_SkipCallbackSkips ==
    [][ \A u \in Users :
            ( /\ skip_bulk_number(u)
              /\ u \in DOMAIN bulk_add_states
              /\ \/ AwaitingCode(bulk_add_states[u])
                 \/ AwaitingSecondFactor(bulk_add_states[u]) )
            => LET j == bulk_add_states[u]
                   c == heap[j].current_client
               IN  /\ heap[j].current_phone =
                         heap[j].phone_numbers[heap[j].current_index + 1]
                   /\ CountedFailed(j, "Skipped by admin")
                   /\ ~clients'[c].connected
                   /\ clients'[c].releases = clients[c].releases + 1
                   /\ NextBegunIffRunning(Worker, j)
                   /\ threads'[Worker].client = NoClient
                   /\ Len(clients') = Len(clients)
      ]_vars

\* the first number of a running two-number job, which awaited its second
\* factor, has just been skipped by the callback: its client is
\* disconnected and the code of the second number is being requested
C29_Witness ==
    /\ last = <<"skip_bulk_number", "">>
    /\ \E j \in Jobs :
        /\ InTable(j)
        /\ heap[j].is_processing
        /\ heap[j].step = "waiting_bulk_password"
        /\ heap[j].current_index = 1
        /\ heap[j].failed_numbers = <<[number |-> Phone1, reason |-> "Skipped by admin"]>>
        /\ Len(clients) = 1
        /\ clients[1].releases = 1
        /\ ~clients[1].connected
        /\ \E t \in DOMAIN threads :
            threads[t].pc = "send_code" /\ threads[t].state = j /\ threads[t].index = 1

\* C30 (as claimed): start_bulk_add, pause_bulk, resume_bulk,
\* skip_bulk_number and a text, handled for a user who has no job, are
\* answered with "Session expired", create no job and change nothing.
C30_NoJobReportsSessionExpired ==
    [][ \A u \in Users :
            ( /\ u \notin DOMAIN bulk_add_states
              /\ \/ start_bulk_add(u)
                 \/ pause_bulk(u)
                 \/ resume_bulk(u)
                 \/ skip_bulk_number(u)
                 \/ unhandled_message(u) )
            => /\ last'[2] = "Session expired"
               /\ UNCHANGED <<bulk_add_states, heap, threads, clients,
                              accounts_col, summaries, cancelled>>
      ]_vars

(***************************************************************************)
(* Handlers of one job running on two worker threads.                      *)
(***************************************************************************)
\* a blocking call made by a handler of dictionary j is pending
Busy(j) == \E t \in DOMAIN threads : threads[t].pc # "idle" /\ threads[t].state = j

\* the bulk_send_code_sync calls pending for dictionary j after the step
SendsInFlightNext(j) ==
    {t \in DOMAIN threads : threads'[t].pc = "send_code" /\ threads'[t].state = j}

\* the step is a skip, pause, resume or cancel callback or a text of user u
Delivered(u) ==
    \/ skip_bulk_number(u)
    \/ pause_bulk(u)
    \/ resume_bulk(u)
    \/ handle_cancel_bulk(u)
    \/ \E text \in OtpTexts : handle_bulk_otp_input(u, text)
    \/ \E text \in Texts : handle_bulk_password_input(u, text)

\* C22 (as claimed): the handlers of one job are serialized.  A callback
\* or text delivered while a call of the job is pending never leaves two
\* bulk_send_code_sync calls of the job in flight; and a call that returns
\* finds the cursor at the list position it was made for: the client of a
\* send call is stored for that position and an outcome is counted for
\* that position, so that no number is counted twice or passed over.
C22_OperationsSerialized ==
    [][ \A j \in JobIds :
            (j \in Jobs /\ InTable(j)) =>
              /\ \A u \in Users :
                    (Busy(j) /\ bulk_add_states[u] = j /\ Delivered(u))
                    => Cardinality(SendsInFlightNext(j)) <= 1
              /\ \A t \in DOMAIN threads :
                    ( /\ threads[t].pc # "idle"
                      /\ threads[t].state = j
                      /\ threads'[t] # threads[t]
                      /\ \/ send_bulk_otp_done(t, "success")
                         \/ Counted(j) )
                    => CallIndex(t) = heap[j].current_index
      ]_vars

(***************************************************************************)
(* Jobs of different users.                                                *)
(***************************************************************************)
\* the step is a handler called for an update of user u, or the return of
\* a call made by a handler of user u
StepOf(u) ==
    \/ \E c \in Countries : bulk_account(u, c)
    \/ \E raw \in ShortLists : handle_bulk_numbers_input(u, raw)
    \/ start_bulk_add(u)
    \/ unhandled_message(u)
    \/ Delivered(u)
    \/ \E t \in DOMAIN threads :
          /\ threads[t].pc # "idle"
          /\ threads[t].user = u
          /\ threads'[t] # threads[t]

\* the step leaves everything of user v as it was: the entry in
\* bulk_add_states, the job dictionary (cursor, counters, is_processing,
\* step, current_client, current_phone), the clients opened for that job
\* and the calls pending for that user
Unaffected(v) ==
    LET j == bulk_add_states[v] IN
    /\ v \in DOMAIN bulk_add_states'
    /\ bulk_add_states'[v] = j
    /\ heap'[j] = heap[j]
    /\ \A c \in Clients : clients[c].job = j => clients'[c] = clients[c]
    /\ \A t \in DOMAIN threads : threads[t].user = v => threads'[t] = threads[t]

RunLists == { <<Phone1>>, <<Phone1, BadLine, Phone2>> }

\* the return of the blocking call worker t waits in
Return(t) ==
    \/ \E r \in SendCodeResults :
          /\ threads[t].pc = "send_code"
          /\ r = "success" => heap[threads[t].state].total_numbers = 1
          /\ send_bulk_otp_done(t, r)
    \/ \E r \in VerifyOtpResults : handle_bulk_otp_done(t, r)
    \/ \E r \in VerifyPasswordResults : handle_bulk_password_done(t, r)
    \/ \E r \in SaveResults : save_bulk_account_done(t, r)

\* input that the attempt at the cursor can use: the skip button, a code
\* of five digits or "skip", a secret or "skip"
Input ==
    \/ \E u \in Users : skip_bulk_number(u)
    \/ \E u \in Users, text \in OtpTexts :
          /\ SaysSkip(text) \/ FiveDigits(text)
          /\ handle_bulk_otp_input(u, text)
    \/ \E u \in Users, text \in Texts :
          /\ strip(text) # <<>>
          /\ handle_bulk_password_input(u, text)

NextRunning ==
    \/ \E u \in Users, c \in Countries :
          u \notin DOMAIN bulk_add_states /\ bulk_account(u, c)
    \/ \E u \in Users, raw \in RunLists : handle_bulk_numbers_input(u, raw)
    \/ \E u \in Users : start_bulk_add(u)
    \/ \E u \in Users : resume_bulk(u)
    \/ \E u \in Users : skip_bulk_number(u)
    \/ \E u \in Users, text \in OtpTexts : handle_bulk_otp_input(u, text)
    \/ \E u \in Users, text \in Texts : handle_bulk_password_input(u, text)
    \/ \E u \in Users : unhandled_message(u)
    \/ \E t \in 1..NumThreads : Return(t)

SpecRunning ==
    /\ Init /\ [][NextRunning]_vars
    /\ \A t \in 1..NumThreads : WF_vars(Return(t))
    /\ SF_vars(Input)

\* the job has been started and not paused
Running(j) == InTable(j) /\ heap[j].is_processing

\* the job has been finalized: it has left bulk_add_states and, no job
\* being cancelled or replaced here, the j-th summary is the one of job j
Finalized(j) == ~InTable(j) /\ Len(summaries) >= j

\* every bulk_send_code_sync call so far has failed
AllRefused == clients = <<>>

\* the summary of a job in which nothing was recorded but failed
\* bulk_send_code_sync calls for numbers it had begun (no skip, and no
\* failure before its first number was chosen) counts every number of the
\* list as failed
CountsAllFailed(summary) ==
    (\A i \in 1..Len(summary.failed_numbers) :
        /\ summary.failed_numbers[i].reason = "Failed to send OTP"
        /\ summary.failed_numbers[i].number # NoText)
    => /\ summary.failed_count = summary.total
       /\ summary.success_count = 0
       /\ Len(summary.failed_numbers) = summary.total

TextHandled ==
    last'[1] \in {"handle_bulk_otp_input", "handle_bulk_password_input"}

\* C32 (as claimed): a text handler calls bulk_verify_otp_sync only while
\* the attempt at the cursor awaits its code and bulk_verify_password_sync
\* only while it awaits the second factor, on the client opened for the
\* number at the cursor; a text that arrives while no attempt awaits input
\* makes no call and leaves cursor and counters as they were.
C32_TextOnlyToAwaitingAttempt ==
    [][ /\ \A t \in DOMAIN threads :
              ( /\ threads[t].pc = "idle"
                /\ threads'[t].pc \in {"verify_otp", "verify_password"} )
              => LET j == threads'[t].state IN
                 /\ threads'[t].pc = "verify_otp" => AwaitingCode(j)
                 /\ threads'[t].pc = "verify_password" => AwaitingSecondFactor(j)
                 /\ threads'[t].client = heap[j].current_client
        /\ \A j \in JobIds :
              ( /\ TextHandled
                /\ InTable(j)
                /\ ~AwaitingCode(j)
                /\ ~AwaitingSecondFactor(j) )
              => /\ threads' = threads
                 /\ InTableNext(j)
                 /\ heap'[j].current_index = heap[j].current_index
                 /\ heap'[j].success_count = heap[j].success_count
                 /\ heap'[j].failed_count = heap[j].failed_count
      ]_vars

(***************************************************************************)
(* The list of failed numbers.                                             *)
(***************************************************************************)
\* C33 (as claimed): failed_numbers has failed_count entries, and every
\* entry that a step adds carries a reason and the phone number at the
\* cursor, phone_numbers[current_index], of the moment it was added.
C33_FailedListMatchesCount ==
    [][ \A j \in JobIds :
            Alive(j)
            => /\ Len(heap'[j].failed_numbers) = heap'[j].failed_count
               /\ heap'[j].failed_numbers # heap[j].failed_numbers
                  => LET entry == heap'[j].failed_numbers[
                                     Len(heap'[j].failed_numbers)]
                     IN  /\ heap'[j].failed_count = heap[j].failed_count + 1
                         /\ heap'[j].failed_numbers =
                               Append(heap[j].failed_numbers, entry)
                         /\ entry.reason # ""
                         /\ heap[j].current_index < heap[j].total_numbers
                         /\ entry.number =
                               heap[j].phone_numbers[heap[j].current_index + 1]
      ]_vars

(***************************************************************************)
(* The count of submitted secrets.                                         *)
(***************************************************************************)
\* C34: password_attempts is 0 whenever the attempt at the cursor comes to
\* await the second factor, whatever was counted for earlier numbers of
\* the job.
C34_CounterZeroOnEntry ==
    [][ \A j \in JobIds :
            (~AwaitingSecondFactor(j) /\ AwaitingSecondFactor(j)')
            => heap'[j].password_attempts = 0
      ]_vars

\* the second number comes to await the second factor after the first
\* number failed on its second rejected secret
C34_Witness ==
    /\ last = <<"handle_bulk_otp_done", "password_required">>
    /\ AwaitingSecondFactor(1)
    /\ heap[1].current_index = 1
    /\ heap[1].password_attempts = 0
    /\ heap[1].failed_numbers =
          << [number |-> Phone1, reason |-> "Password error"] >>

(***************************************************************************)
(* What is stored for a verified number.                                   *)
(***************************************************************************)
\* C35 (as claimed): a save that follows an accepted secret passes that
\* secret on, a save that follows an accepted code passes none; the
\* document inserted has has_2fa set exactly when it carries a secret, the
\* secret of the call and, for a job that is still in bulk_add_states,
\* the country of the job and the phone number at the cursor,
\* phone_numbers[current_index].
C35_SavedAsVerified ==
    [][ \A t \in DOMAIN threads :
            /\ (threads[t].pc = "verify_password" /\ threads'[t].pc = "save")
               => /\ threads'[t].password = threads[t].password
                  /\ threads'[t].password # NoText
            /\ (threads[t].pc = "verify_otp" /\ threads'[t].pc = "save")
               => threads'[t].password = NoText
            /\ ( /\ threads[t].pc = "save"
                 /\ threads'[t] # threads[t]
                 /\ Len(accounts_col') > Len(accounts_col) )
               => LET j == threads[t].state
                      doc == accounts_col'[Len(accounts_col')]
                  IN  /\ accounts_col' = Append(accounts_col, doc)
                      /\ doc.two_step_password = threads[t].password
                      /\ doc.has_2fa = (doc.two_step_password # NoText)
                      /\ InTable(j)
                         => /\ doc.country = heap[j].country
                            /\ heap[j].current_index < heap[j].total_numbers
                            /\ doc.phone = heap[j].phone_numbers[
                                               heap[j].current_index + 1]
      ]_vars

(***************************************************************************)
(* Calls that return after the job was cancelled.                          *)
(***************************************************************************)
\* the call pending on thread t was made for a job that has been
\* cancelled since, and its owner has no job now
ReturnsAfterCancel(t) ==
    /\ threads[t].pc # "idle"
    /\ threads'[t] # threads[t]
    /\ threads[t].state \in cancelled
    /\ threads[t].user \notin DOMAIN bulk_add_states

\* C36 (as claimed): the return of a call that was pending when its job
\* was cancelled stores no account, makes no further call and changes no
\* counter, cursor or summary.
C36_NoEffectAfterCancel ==
    [][ \A t \in DOMAIN threads :
            ReturnsAfterCancel(t)
            => LET j == threads[t].state IN
               /\ accounts_col' = accounts_col
               /\ threads'[t] = Idle
               /\ bulk_add_states' = bulk_add_states
               /\ summaries' = summaries
               /\ heap'[j].step # "collected"
                  => /\ heap'[j].current_index = heap[j].current_index
                     /\ heap'[j].success_count = heap[j].success_count
                     /\ heap'[j].failed_count = heap[j].failed_count
      ]_vars

(***************************************************************************)
(* One outcome per number.                                                 *)
(***************************************************************************)
\* C37 (as claimed): no phone number of the job is stored twice in
\* accounts_col, and no number that is stored is also recorded in
\* failed_numbers.
C37_StoredAtMostOnce ==
    /\ \A a, b \in 1..Len(accounts_col) :
          a # b => accounts_col[a].phone # accounts_col[b].phone
    /\ \A j \in Jobs, a \in 1..Len(accounts_col) :
          \A i \in 1..Len(heap[j].failed_numbers) :
              heap[j].failed_numbers[i].number # accounts_col[a].phone

(***************************************************************************)
(* A job opened over a job.  The admin chooses a country again while a     *)
(* job of theirs is in bulk_add_states; the lists are of one line.         *)
(***************************************************************************)
NextReplace ==
    \/ \E u \in Users, c \in Countries : bulk_account(u, c)
    \/ \E u \in Users, raw \in ShortLists : handle_bulk_numbers_input(u, raw)
    \/ \E u \in Users : start_bulk_add(u)
    \/ \E u \in Users : handle_cancel_bulk(u)
    \/ \E u \in Users, text \in OtpTexts : handle_bulk_otp_input(u, text)
    \/ \E t \in 1..NumThreads, r \in SendCodeResults : send_bulk_otp_done(t, r)
    \/ \E t \in 1..NumThreads, r \in VerifyOtpResults : handle_bulk_otp_done(t, r)
    \/ \E t \in 1..NumThreads, r \in SaveResults : save_bulk_account_done(t, r)

SpecReplace == Init /\ [][NextReplace]_vars

\* C38 (as claimed): when the bulk_account_ callback comes for a user who
\* has a job, the entry of the user afterwards is a fresh job, and no
\* client of the job it replaces is left connected.
C38_ReplacedJobReleased ==
    [][ \A u \in DOMAIN bulk_add_states \cap DOMAIN bulk_add_states' :
            bulk_add_states'[u] # bulk_add_states[u]
            => /\ \E c \in Countries :
                    heap'[bulk_add_states'[u]] = NewJob(c)
               /\ \A c \in DOMAIN clients' :
                    clients'[c].job = bulk_add_states[u]
                       => ~clients'[c].connected
      ]_vars

====
